---- MODULE Spec2Model ----
(***************************************************************************)
(* Model of reports/executive_summary_revised.py: the fiscal-year helpers, *)
(* the eight prepare_* aggregators, the render_* functions' writes to the  *)
(* chart frame, and run_report's KPI block and chart loop.                 *)
(*                                                                         *)
(* Strings are sequences of one-character strings, so that slicing         *)
(* (s[-2:]) and startswith are computed as Python computes them.  A data   *)
(* frame is a record [id, cols, rows]: id is the identity of the Python    *)
(* object, cols the set of column names, rows a sequence of functions from *)
(* cols to cells.                                                          *)
(***************************************************************************)
EXTENDS Integers, Sequences, FiniteSets, TLC

VARIABLES now, roster, fy_list, chart, kpis, pc, args, tag, formatted

vars == <<now, roster, fy_list, chart, kpis, pc, args, tag, formatted>>

(***************************************************************************)
(* Bounds of the model.                                                    *)
(***************************************************************************)
MaxN == 5
MaxRows == 2
MaxAggRows == 2
MaxFyLen == 2
MaxAgeRows == 2

(***************************************************************************)
(* Python strings.                                                         *)
(***************************************************************************)
None == <<"<None>">>

FY_PREFIX == <<"F", "Y", "-">>

FINANCIAL_YEAR_20 ==
    <<"F", "i", "n", "a", "n", "c", "i", "a", "l", " ",
      "Y", "e", "a", "r", " ", "2", "0">>

Digit(k) == <<"0", "1", "2", "3", "4", "5", "6", "7", "8", "9">>[k + 1]

RECURSIVE PyStrInt(_)
\* str(i) of a Python int i >= 0
PyStrInt(i) == IF i < 10 THEN <<Digit(i)>>
               ELSE Append(PyStrInt(i \div 10), Digit(i % 10))

\* str(y) of the float that holds the whole number y: "2025.0"
PyStrFloat(y) == PyStrInt(y) \o <<".", "0">>

\* s[-2:]
Last2(s) == IF Len(s) <= 2 THEN s ELSE SubSeq(s, Len(s) - 1, Len(s))

\* s.startswith(p)
StartsWith(s, p) == Len(s) >= Len(p) /\ SubSeq(s, 1, Len(p)) = p

\* bool(s) of a str or None
Truthy(s) == s # None /\ s # <<>>

(***************************************************************************)
(* format_financial_year and get_last_fy_list.                             *)
(***************************************************************************)
format_financial_year(fy_code) ==
    IF Truthy(fy_code) /\ StartsWith(fy_code, FY_PREFIX)
    THEN FINANCIAL_YEAR_20 \o Last2(fy_code)
    ELSE fy_code

\* a faulty variant of get_last_fy_list: range(n) instead of range(n-1,-1,-1)
get_last_fy_list_newest_first(current_fy, n) ==
    [k \in 1..(IF n > 0 THEN n ELSE 0) |->
        FY_PREFIX \o Last2(PyStrInt(current_fy - (k - 1)))]

get_last_fy_list(current_fy, n) ==
    [k \in 1..(IF n > 0 THEN n ELSE 0) |->
        FY_PREFIX \o Last2(PyStrInt(current_fy - (n - k)))]

(***************************************************************************)
(* Timestamps.  A cell of a date column is a Timestamp, NaT (a missing     *)
(* date) or a string that does not parse as a date.                        *)
(***************************************************************************)
Ts(y, m, d) == [k |-> "ts", y |-> y, m |-> m, d |-> d]
NaT == [k |-> "nat", y |-> 0, m |-> 0, d |-> 0]
BadStr == [k |-> "str", y |-> 0, m |-> 0, d |-> 0]

\* a <= b on Timestamps
TsLe(a, b) ==
    \/ a.y < b.y
    \/ a.y = b.y /\ a.m < b.m
    \/ a.y = b.y /\ a.m = b.m /\ a.d <= b.d

\* a > b on Timestamps
TsGt(a, b) == ~TsLe(a, b)

\* days since 1970-01-01 of a Timestamp (proleptic Gregorian calendar)
DayNumber(t) ==
    LET y == IF t.m <= 2 THEN t.y - 1 ELSE t.y
        era == y \div 400
        yoe == y - era * 400
        mp == (t.m + 9) % 12
        doy == (153 * mp + 2) \div 5 + t.d - 1
        doe == yoe * 365 + yoe \div 4 - yoe \div 100 + doy
    IN era * 146097 + doe - 719468

(***************************************************************************)
(* Exact fractions for the float arithmetic of the percentages: a value is *)
(* [num, den] in lowest terms with den > 0.                                *)
(***************************************************************************)
RECURSIVE Gcd(_, _)
Gcd(a, b) == IF b = 0 THEN a ELSE Gcd(b, a % b)

Frac(n, d) == LET g == Gcd(n, d) IN
    IF n = 0 THEN [num |-> 0, den |-> 1] ELSE [num |-> n \div g, den |-> d \div g]

Whole(n) == [num |-> n, den |-> 1]

(***************************************************************************)
(* Data frames.                                                            *)
(***************************************************************************)
Frame(id, cols, rows) == [id |-> id, cols |-> cols, rows |-> rows]

\* pd.DataFrame(columns=[...]): named columns, no rows
EmptyFrame(cols) == Frame("chart", cols, <<>>)

\* a faulty variant of DfCopy: the aggregator works on the caller's object
DfAlias(df) == df

\* df.copy(): a new object with the same columns and values
DfCopy(df) == [df EXCEPT !.id = "copy"]

\* df[name] = values, written into the object df
SetColumn(df, name, values) ==
    [df EXCEPT !.cols = @ \cup {name},
               !.rows = [i \in 1..Len(df.rows) |->
                            [c \in df.cols \cup {name} |->
                                IF c = name THEN values[i] ELSE df.rows[i][c]]]]

RECURSIVE SelectIdx(_, _)
\* the indices from i on, ascending, at which the boolean column mask is true
SelectIdx(mask, i) ==
    IF i > Len(mask) THEN <<>>
    ELSE IF mask[i] THEN <<i>> \o SelectIdx(mask, i + 1)
    ELSE SelectIdx(mask, i + 1)

\* df[mask]: a new object holding the rows at which mask is true
BoolIndex(df, mask) ==
    LET idx == SelectIdx(mask, 1)
    IN Frame("filtered", df.cols, [j \in 1..Len(idx) |-> df.rows[idx[j]]])

\* what the caller's object holds after the callee wrote into work
CallerSees(arg, work) == IF work.id = arg.id THEN work ELSE arg

\* pd.to_datetime(cell, errors='coerce')
ToDatetime(cell) == IF cell.k = "ts" THEN cell ELSE NaT

\* cell.notna() / cell.isna() on the column as stored
NotNa(cell) == cell.k # "nat"
IsNa(cell) == cell.k = "nat"

\* pd.to_datetime(df[col], errors='coerce').dt.year.apply(
\*     lambda y: f"FY-{str(y)[-2:]}" if pd.notnull(y) else None)
\* .dt.year is an integer column when no date is missing, and a float column
\* (2025.0, NaN) when one is.
FYLabels(df, col) ==
    LET coerced == [i \in 1..Len(df.rows) |-> ToDatetime(df.rows[i][col])]
        isFloat == \E i \in 1..Len(df.rows) : coerced[i] = NaT
    IN [i \in 1..Len(df.rows) |->
           IF coerced[i] = NaT THEN None
           ELSE FY_PREFIX \o Last2(IF isFloat THEN PyStrFloat(coerced[i].y)
                                              ELSE PyStrInt(coerced[i].y))]

\* the keys of groupby(col): the values of col that are not null
GroupKeys(rows, col) == {rows[i][col] : i \in 1..Len(rows)} \ {None}

\* rows.groupby(col).size(), as a mapping from key to count
GroupBySize(rows, col) ==
    [key \in GroupKeys(rows, col) |->
        Cardinality({i \in 1..Len(rows) : rows[i][col] = key})]

RECURSIVE SumWhere(_, _, _, _, _)
SumWhere(rows, col, key, val, i) ==
    IF i > Len(rows) THEN 0
    ELSE (IF rows[i][col] = key THEN rows[i][val] ELSE 0)
         + SumWhere(rows, col, key, val, i + 1)

\* rows.groupby(col)[val].sum(), as a mapping from key to sum
GroupBySum(rows, col, val) ==
    [key \in GroupKeys(rows, col) |-> SumWhere(rows, col, key, val, 1)]

\* grouped[grouped['FY'].isin(fy_list)]
IsIn(grouped, fyl) ==
    [key \in {x \in DOMAIN grouped : \E i \in 1..Len(fyl) : fyl[i] = x} |->
        grouped[key]]

\* grouped.set_index('FY').reindex(fy_list).reset_index(): one row per label of
\* fy_list, in its order; a label that is no key of grouped gets NaN
Reindex(grouped, fyl) ==
    [i \in 1..Len(fyl) |->
        IF fyl[i] \in DOMAIN grouped
        THEN [FY |-> fyl[i], nan |-> FALSE, v |-> grouped[fyl[i]]]
        ELSE [FY |-> fyl[i], nan |-> TRUE, v |-> 0]]

\* a faulty variant of FillNa: the rows that hold NaN are dropped (dropna)
DropNa(reindexed, zero) ==
    LET idx == SelectIdx([i \in 1..Len(reindexed) |-> ~reindexed[i].nan], 1)
    IN [j \in 1..Len(idx) |->
           [FY |-> reindexed[idx[j]].FY, v |-> reindexed[idx[j]].v]]

\* .fillna(0)
FillNa(reindexed, zero) ==
    [i \in 1..Len(reindexed) |->
        [FY |-> reindexed[i].FY,
         v |-> IF reindexed[i].nan THEN zero ELSE reindexed[i].v]]

\* the frame of columns 'FY' and valcol that the aggregator returns
FYChart(valcol, filled) ==
    Frame("chart", {"FY", valcol},
          [i \in 1..Len(filled) |->
              [c \in {"FY", valcol} |->
                  IF c = "FY" THEN filled[i].FY ELSE filled[i].v]])

(***************************************************************************)
(* The fiscal-year aggregators.  Each returns [ret, df]: the frame it      *)
(* returns and the caller's frame as the call leaves it.                   *)
(***************************************************************************)
prepare_manpower_growth_data(df, fyl) ==
    IF "date_of_joining" \notin df.cols
    THEN [ret |-> EmptyFrame({"FY", "Headcount"}), df |-> df]
    ELSE LET work == SetColumn(DfCopy(df), "FY", FYLabels(df, "date_of_joining"))
             grouped == GroupBySize(work.rows, "FY")
             kept == IsIn(grouped, fyl)
         IN [ret |-> FYChart("Headcount", FillNa(Reindex(kept, fyl), 0)),
             df |-> CallerSees(df, work)]

prepare_manpower_cost_data(df, fyl) ==
    IF "date_of_joining" \notin df.cols \/ "total_ctc_pa" \notin df.cols
    THEN [ret |-> EmptyFrame({"FY", "Total Cost"}), df |-> df]
    ELSE LET work == SetColumn(DfCopy(df), "FY", FYLabels(df, "date_of_joining"))
             grouped == GroupBySum(work.rows, "FY", "total_ctc_pa")
             kept == IsIn(grouped, fyl)
         IN [ret |-> FYChart("Total Cost", FillNa(Reindex(kept, fyl), 0)),
             df |-> CallerSees(df, work)]

\* a faulty variant of HeadcountByFY: the headcount of every bucket is the size of
\* the whole roster
HeadcountWholeRoster(work) ==
    [key \in GroupKeys(work.rows, "FY") |-> Len(work.rows)]

\* headcount_df = df.groupby('FY').size()
HeadcountByFY(work) == GroupBySize(work.rows, "FY")

prepare_attrition_data(df, fyl) ==
    IF "date_of_exit" \notin df.cols
    THEN [ret |-> EmptyFrame({"FY", "Attrition %"}), df |-> df]
    ELSE LET work == SetColumn(DfCopy(df), "FY", FYLabels(df, "date_of_exit"))
             exited == BoolIndex(work, [i \in 1..Len(work.rows) |->
                                         NotNa(work.rows[i]["date_of_exit"])])
             attrition_df == GroupBySize(exited.rows, "FY")
             headcount_df == HeadcountByFY(work)
             \* pd.merge(attrition_df, headcount_df, on='FY', how='left') and
             \* merged['Attrition %'] = Leavers / Headcount * 100
             merged == [key \in {x \in DOMAIN attrition_df : x \in DOMAIN headcount_df} |->
                           Frac(attrition_df[key] * 100, headcount_df[key])]
             kept == IsIn(merged, fyl)
         IN [ret |-> FYChart("Attrition %", FillNa(Reindex(kept, fyl), Whole(0))),
             df |-> CallerSees(df, work)]

(***************************************************************************)
(* The distribution aggregators: pd.cut, value_counts.                     *)
(***************************************************************************)
FracLt(a, b) == a.num * b.den < b.num * a.den
FracLe(a, b) == a.num * b.den <= b.num * a.den

\* NaN as a number
NaN == [num |-> 0, den |-> 0]
IsNaN(x) == x.den = 0

\* pd.cut's bins with right=True (the default): (lo, hi]
InBin(x, lo, hi) == FracLt(lo, x) /\ FracLe(x, hi)

\* pd.cut(x, bins=bins, labels=labels): the number of the bin x lies in, 0 (NaN)
\* when x is NaN or lies in no bin
Cut(x, bins) ==
    IF IsNaN(x) \/ ~\E b \in 1..(Len(bins) - 1) : InBin(x, bins[b], bins[b + 1])
    THEN 0
    ELSE CHOOSE b \in 1..(Len(bins) - 1) : InBin(x, bins[b], bins[b + 1])

\* df[col].value_counts().reset_index() of a categorical column, then
\* sort_values(col): one row per category, in the categories' order
CategoryCounts(col, labels, binOf) ==
    Frame("chart", {col, "Count"},
          [b \in 1..Len(labels) |->
              [c \in {col, "Count"} |->
                  IF c = col THEN labels[b]
                  ELSE Cardinality({j \in DOMAIN binOf : binOf[j] = b})]])

RECURSIVE FirstSeen(_, _)
\* the distinct values of a sequence, in the order of their first appearance
FirstSeen(q, i) ==
    IF i > Len(q) THEN <<>>
    ELSE IF \E j \in 1..(i - 1) : q[j] = q[i] THEN FirstSeen(q, i + 1)
    ELSE <<q[i]>> \o FirstSeen(q, i + 1)

CountOf(q, v) == Cardinality({j \in 1..Len(q) : q[j] = v})

RECURSIVE InsertByCount(_, _, _)
\* v inserted into sorted (descending by count): after the values whose count
\* is not smaller
InsertByCount(sorted, v, q) ==
    IF sorted = <<>> THEN <<v>>
    ELSE IF CountOf(q, Head(sorted)) >= CountOf(q, v)
         THEN <<Head(sorted)>> \o InsertByCount(Tail(sorted), v, q)
         ELSE <<v>> \o sorted

RECURSIVE SortByCount(_, _, _)
SortByCount(seen, i, q) ==
    IF i = 0 THEN <<>>
    ELSE InsertByCount(SortByCount(seen, i - 1, q), seen[i], q)

\* df[col].value_counts().reset_index() of a column of strings: one row per
\* value, by descending count
ValueCounts(df, col, name) ==
    LET q == [i \in 1..Len(df.rows) |-> df.rows[i][col]]
        seen == FirstSeen(q, 1)
        order == SortByCount(seen, Len(seen), q)
    IN Frame("chart", {name, "Count"},
             [b \in 1..Len(order) |->
                 [c \in {name, "Count"} |->
                     IF c = name THEN order[b] ELSE CountOf(q, order[b])]])

\* if 'date_of_exit' in df.columns: df = df[df['date_of_exit'].isna()]
ActiveOnly(df) ==
    IF "date_of_exit" \in df.cols
    THEN BoolIndex(df, [i \in 1..Len(df.rows) |-> IsNa(df.rows[i]["date_of_exit"])])
    ELSE df

prepare_gender_data(df) ==
    IF "gender" \notin df.cols
    THEN [ret |-> EmptyFrame({"Gender", "Count"}), df |-> df]
    ELSE LET work == ActiveOnly(DfCopy(df))
         IN [ret |-> ValueCounts(work, "gender", "Gender"),
             df |-> CallerSees(df, work)]

AGE_BINS == <<Whole(0), Whole(20), Whole(25), Whole(30), Whole(35), Whole(40),
              Whole(45), Whole(50), Whole(55), Whole(60), Whole(100)>>

AGE_LABELS == <<"<20", "20-24", "25-29", "30-34", "35-39", "40-44", "45-49",
                "50-54", "55-59", "60+">>

\* (at - pd.to_datetime(dob, errors='coerce')).days // 365
AgeAt(at, dob) == (DayNumber(at) - DayNumber(dob)) \div 365

\* lambda dob: (pd.Timestamp.now() - pd.to_datetime(dob, errors='coerce')).days
\*             // 365 if pd.notnull(dob) else 0
AgeOf(at, dob) == IF IsNa(dob) THEN Whole(0) ELSE Whole(AgeAt(at, dob))

prepare_age_distribution(df, at) ==
    IF "date_of_birth" \notin df.cols
    THEN [ret |-> EmptyFrame({"Age Group", "Count"}), df |-> df]
    ELSE LET active == ActiveOnly(DfCopy(df))
             aged == SetColumn(active, "Age",
                        [i \in 1..Len(active.rows) |->
                            AgeOf(at, active.rows[i]["date_of_birth"])])
             work == SetColumn(aged, "Age Group",
                        [i \in 1..Len(aged.rows) |->
                            Cut(aged.rows[i]["Age"], AGE_BINS)])
         IN [ret |-> CategoryCounts("Age Group", AGE_LABELS,
                        [i \in 1..Len(work.rows) |-> work.rows[i]["Age Group"]]),
             df |-> CallerSees(df, work)]

TENURE_BINS == <<Whole(0), Frac(1, 2), Whole(1), Whole(3), Whole(5), Whole(10),
                 Whole(40)>>

TENURE_LABELS == <<"0-6 Months", "6-12 Months", "1-3 Years", "3-5 Years",
                   "5-10 Years", "10+ Years">>

prepare_tenure_distribution(df) ==
    IF "total_exp_yrs" \notin df.cols
    THEN [ret |-> EmptyFrame({"Tenure Group", "Count"}), df |-> df]
    ELSE LET active == ActiveOnly(DfCopy(df))
             work == SetColumn(active, "Tenure Group",
                        [i \in 1..Len(active.rows) |->
                            Cut(active.rows[i]["total_exp_yrs"], TENURE_BINS)])
         IN [ret |-> CategoryCounts("Tenure Group", TENURE_LABELS,
                        [i \in 1..Len(work.rows) |-> work.rows[i]["Tenure Group"]]),
             df |-> CallerSees(df, work)]

EXPERIENCE_BINS == <<Whole(0), Whole(1), Whole(3), Whole(5), Whole(10), Whole(40)>>

EXPERIENCE_LABELS ==
    << <<"<", "1", " ", "Y", "e", "a", "r">>,
       <<"1", "-", "3", " ", "Y", "e", "a", "r", "s">>,
       <<"3", "-", "5", " ", "Y", "e", "a", "r", "s">>,
       <<"5", "-", "1", "0", " ", "Y", "e", "a", "r", "s">>,
       <<"1", "0", "+", " ", "Y", "e", "a", "r", "s">> >>

prepare_experience_distribution(df) ==
    IF "total_exp_yrs" \notin df.cols
    THEN [ret |-> EmptyFrame({"Experience Group", "Count"}), df |-> df]
    ELSE LET active == ActiveOnly(DfCopy(df))
             work == SetColumn(active, "Experience Group",
                        [i \in 1..Len(active.rows) |->
                            Cut(active.rows[i]["total_exp_yrs"], EXPERIENCE_BINS)])
         IN [ret |-> CategoryCounts("Experience Group", EXPERIENCE_LABELS,
                        [i \in 1..Len(work.rows) |->
                            work.rows[i]["Experience Group"]]),
             df |-> CallerSees(df, work)]

prepare_education_distribution(df) ==
    IF "qualification_type" \notin df.cols
    THEN [ret |-> EmptyFrame({"Qualification", "Count"}), df |-> df]
    ELSE LET work == ActiveOnly(DfCopy(df))
         IN [ret |-> ValueCounts(work, "qualification_type", "Qualification"),
             df |-> CallerSees(df, work)]

(***************************************************************************)
(* The render functions, as far as they touch the frame they are given.    *)
(***************************************************************************)
\* df.empty: no rows or no columns
IsEmpty(df) == Len(df.rows) = 0 \/ df.cols = {}

\* int(value) of a count (an int) or of a percentage (a fraction)
PyInt(v, isFrac) == IF isFrac THEN v.num \div v.den ELSE v

\* indian_format(value): locale.format_string('%d', int(value), grouping=True);
\* the values of the model stay below 1000, where grouping adds no separator
indian_format(v, isFrac) == PyStrInt(PyInt(v, isFrac))

\* render_line_chart and render_bar_chart: "No Data" for an empty frame or a
\* missing column; otherwise df['label'] and df[x] are written into the frame
\* the caller passed.  The result is that frame after the call.
render_xy_chart(df, x, y) ==
    IF IsEmpty(df) \/ x \notin df.cols \/ y \notin df.cols THEN df
    ELSE LET labelled == SetColumn(df, "label",
                 [i \in 1..Len(df.rows) |->
                     indian_format(df.rows[i][y], y = "Attrition %")])
         IN SetColumn(labelled, x,
                [i \in 1..Len(labelled.rows) |->
                    format_financial_year(labelled.rows[i][x])])

\* render_pie_chart and render_donut_chart: df.sort_values(...) is a new
\* object, and 'label' is written into it; the frame the caller passed is left
\* as it was
render_pie_chart(df, names, values) == df

(***************************************************************************)
(* run_report: the KPI block.                                              *)
(***************************************************************************)
\* current_fy = now.year + 1 if now.month >= 4 else now.year
CurrentFY(at) == IF at.m >= 4 THEN at.y + 1 ELSE at.y

FyStart(current_fy) == Ts(current_fy - 1, 4, 1)
FyEnd(current_fy) == Ts(current_fy, 3, 31)

\* the exception that a comparison of df[col] with a Timestamp raises: KeyError
\* for a missing column, TypeError for a column that holds a string
CompareRaises(df, col) ==
    IF col \notin df.cols THEN "KeyError"
    ELSE IF \E i \in 1..Len(df.rows) : df.rows[i][col].k = "str" THEN "TypeError"
    ELSE "none"

\* the exception that line 257 raises, in its order of evaluation
MaskRaises(df) ==
    IF CompareRaises(df, "date_of_joining") # "none"
    THEN CompareRaises(df, "date_of_joining")
    ELSE CompareRaises(df, "date_of_exit")

\* cell <= at and cell > at as pandas compares a date column with a Timestamp:
\* false for NaT
CellLe(cell, at) == cell.k = "ts" /\ TsLe(cell, at)
CellGt(cell, at) == cell.k = "ts" /\ TsGt(cell, at)

\* (df['date_of_joining'] <= at) &
\* ((df['date_of_exit'].isna()) | (df['date_of_exit'] > at)), at row i
MaskActive(df, at, i) ==
    /\ CellLe(df.rows[i]["date_of_joining"], at)
    /\ (IsNa(df.rows[i]["date_of_exit"]) \/ CellGt(df.rows[i]["date_of_exit"], at))

\* mask.sum()
HeadcountAt(df, at) ==
    Cardinality({i \in 1..Len(df.rows) : MaskActive(df, at, i)})

\* df[col].between(lo, hi).sum() if col in df.columns else 0
CountBetween(df, col, lo, hi) ==
    IF col \notin df.cols THEN 0
    ELSE Cardinality({i \in 1..Len(df.rows) :
             /\ df.rows[i][col].k = "ts"
             /\ TsLe(lo, df.rows[i][col])
             /\ TsLe(df.rows[i][col], hi)})

\* a faulty variant of AverageHeadcount: no sentinel for two empty headcounts
AverageHeadcountNoSentinel(headcount_start, headcount_end) ==
    Frac(headcount_start + headcount_end, 2)

\* (headcount_start + headcount_end) / 2 if (headcount_start + headcount_end)
\* else 1
AverageHeadcount(headcount_start, headcount_end) ==
    IF headcount_start + headcount_end # 0
    THEN Frac(headcount_start + headcount_end, 2)
    ELSE Whole(1)

\* (leavers / avg_headcount) * 100 if avg_headcount else 0
AttritionRate(leavers, avg_headcount) ==
    IF avg_headcount.num # 0
    THEN Frac(leavers * avg_headcount.den * 100, avg_headcount.num)
    ELSE Whole(0)

RECURSIVE SumInts(_, _)
SumInts(q, i) == IF i > Len(q) THEN 0 ELSE q[i] + SumInts(q, i + 1)

FracAdd(a, b) == Frac(a.num * b.den + b.num * a.den, a.den * b.den)

RECURSIVE SumFracs(_, _)
SumFracs(q, i) == IF i > Len(q) THEN Whole(0) ELSE FracAdd(q[i], SumFracs(q, i + 1))

\* series.mean() of a sequence of fractions: NaN for an empty one
Mean(q) ==
    IF Len(q) = 0 THEN NaN
    ELSE LET t == SumFracs(q, 1) IN Frac(t.num, t.den * Len(q))

Column(df, col) == [i \in 1..Len(df.rows) |-> df.rows[i][col]]

\* df['total_exp_yrs'].mean() if 'total_exp_yrs' in df.columns else 0
MeanExperience(df) ==
    IF "total_exp_yrs" \in df.cols THEN Mean(Column(df, "total_exp_yrs")) ELSE Whole(0)

\* df['date_of_birth'].apply(calc_age).mean() if 'date_of_birth' in df.columns
\* else 0; calc_age is None for a null date of birth, and mean skips it
MeanAge(df, at) ==
    IF "date_of_birth" \notin df.cols THEN Whole(0)
    ELSE LET idx == SelectIdx([i \in 1..Len(df.rows) |->
                                  ~IsNa(df.rows[i]["date_of_birth"])], 1)
         IN Mean([j \in 1..Len(idx) |->
                     Whole(AgeAt(at, df.rows[idx[j]]["date_of_birth"]))])

\* the KPI values of a report that raised before computing them
KpisRaised(e) ==
    [raised |-> e, active |-> 0, leavers |-> 0, headcount_start |-> 0,
     headcount_end |-> 0, avg_headcount |-> NaN, attrition |-> NaN,
     joiners |-> 0, total_cost |-> 0, female_ratio |-> NaN, avg_tenure |-> NaN,
     avg_age |-> NaN, avg_total_exp |-> NaN]

\* lines 248-275 of run_report on the roster df at the time at
run_report_kpis(df, at) ==
    IF MaskRaises(df) # "none" THEN KpisRaised(MaskRaises(df))
    ELSE LET current_fy == CurrentFY(at)
             fy_start == FyStart(current_fy)
             fy_end == FyEnd(current_fy)
             active == HeadcountAt(df, at)
             leavers == CountBetween(df, "date_of_exit", fy_start, fy_end)
             headcount_start == HeadcountAt(df, fy_start)
             headcount_end == HeadcountAt(df, fy_end)
             avg_headcount == AverageHeadcount(headcount_start, headcount_end)
             female == Cardinality({i \in 1..Len(df.rows) :
                           /\ MaskActive(df, at, i)
                           /\ df.rows[i]["gender"] = "Female"})
         IN [raised |-> "none",
             active |-> active,
             leavers |-> leavers,
             headcount_start |-> headcount_start,
             headcount_end |-> headcount_end,
             avg_headcount |-> avg_headcount,
             attrition |-> AttritionRate(leavers, avg_headcount),
             joiners |-> CountBetween(df, "date_of_joining", fy_start, fy_end),
             total_cost |-> IF "total_ctc_pa" \in df.cols
                            THEN SumInts(Column(df, "total_ctc_pa"), 1) ELSE 0,
             female_ratio |-> IF "gender" \in df.cols /\ active > 0
                              THEN Frac(female * 100, active) ELSE Whole(0),
             avg_tenure |-> MeanExperience(df),
             avg_age |-> MeanAge(df, at),
             avg_total_exp |-> MeanExperience(df)]

(***************************************************************************)
(* Inputs: sequences up to a length, rosters over a set of columns.        *)
(***************************************************************************)
SeqsUpTo(S, n) == UNION {[1..k -> S] : k \in 0..n}

Distinct(q) == \A i, j \in 1..Len(q) : i # j => q[i] # q[j]

Range(q) == {q[i] : i \in 1..Len(q)}

\* the cells a column of the fiscal-year aggregators' rosters may hold
AggCells ==
    [c \in {"date_of_joining", "date_of_exit", "total_ctc_pa"} |->
        CASE c = "date_of_joining" -> {Ts(2025, 3, 31), Ts(2025, 4, 1), NaT}
          [] c = "date_of_exit" -> {NaT, Ts(2025, 4, 1), Ts(2026, 3, 31), BadStr}
          [] c = "total_ctc_pa" -> {10, 20}]

AggColSets ==
    {{"date_of_joining", "date_of_exit"},
     {"date_of_joining", "total_ctc_pa"},
     {"date_of_exit"}}

RECURSIVE RowsOver(_, _)
\* the rows over the columns cols: every choice of a cell for each column
RowsOver(cols, Cells) ==
    IF cols = {} THEN {[c \in {} |-> 0]}
    ELSE LET c == CHOOSE x \in cols : TRUE
         IN {r @@ (c :> v) : r \in RowsOver(cols \ {c}, Cells), v \in Cells[c]}

AggRosters ==
    UNION {{Frame("roster", cols, rows) :
               rows \in SeqsUpTo(RowsOver(cols, AggCells), MaxAggRows)} :
           cols \in AggColSets}

FyLabelChoices == {FY_PREFIX \o <<"2", "5">>, FY_PREFIX \o <<"2", "6">>,
                   FY_PREFIX \o <<"2", "7">>}

FyLists == {q \in SeqsUpTo(FyLabelChoices, MaxFyLen) : Distinct(q)}

NoFrame == Frame("none", {}, <<>>)
NoKpis == KpisRaised("none")
DefaultNow == Ts(2025, 6, 15)
NoArgs == [current_fy |-> 0, n |-> 0]

(***************************************************************************)
(* SpecAgg: the three fiscal-year aggregators called on any roster with    *)
(* any list of distinct fiscal-year labels.                                *)
(***************************************************************************)
InitAgg ==
    /\ roster \in AggRosters
    /\ now = DefaultNow
    /\ fy_list = <<>>
    /\ chart = NoFrame
    /\ kpis = NoKpis
    /\ pc = "idle"
    /\ args = NoArgs
    /\ tag = None
    /\ formatted = None

CallGrowth ==
    /\ pc = "idle"
    /\ \E B \in FyLists :
          LET res == prepare_manpower_growth_data(roster, B) IN
          /\ fy_list' = B
          /\ chart' = res.ret
          /\ roster' = res.df
    /\ pc' = "prepare_manpower_growth_data"
    /\ UNCHANGED <<now, kpis, args, tag, formatted>>

CallCost ==
    /\ pc = "idle"
    /\ \E B \in FyLists :
          LET res == prepare_manpower_cost_data(roster, B) IN
          /\ fy_list' = B
          /\ chart' = res.ret
          /\ roster' = res.df
    /\ pc' = "prepare_manpower_cost_data"
    /\ UNCHANGED <<now, kpis, args, tag, formatted>>

CallAttrition ==
    /\ pc = "idle"
    /\ \E B \in FyLists :
          LET res == prepare_attrition_data(roster, B) IN
          /\ fy_list' = B
          /\ chart' = res.ret
          /\ roster' = res.df
    /\ pc' = "prepare_attrition_data"
    /\ UNCHANGED <<now, kpis, args, tag, formatted>>

NextAgg == CallGrowth \/ CallCost \/ CallAttrition

SpecAgg == InitAgg /\ [][NextAgg]_vars

(***************************************************************************)
(* Claims about the fiscal-year aggregators (under SpecAgg).               *)
(***************************************************************************)
\* the column whose dates the aggregator named by pc buckets
EventCol == IF pc = "prepare_attrition_data" THEN "date_of_exit"
            ELSE "date_of_joining"

\* the columns the aggregator named by pc needs
NeededCols ==
    CASE pc = "prepare_manpower_growth_data" -> {"date_of_joining"}
      [] pc = "prepare_manpower_cost_data" -> {"date_of_joining", "total_ctc_pa"}
      [] pc = "prepare_attrition_data" -> {"date_of_exit"}
      [] OTHER -> {}

ValueCol ==
    CASE pc = "prepare_manpower_growth_data" -> "Headcount"
      [] pc = "prepare_manpower_cost_data" -> "Total Cost"
      [] pc = "prepare_attrition_data" -> "Attrition %"
      [] OTHER -> "none"

AggReturned == pc \in {"prepare_manpower_growth_data",
                       "prepare_manpower_cost_data",
                       "prepare_attrition_data"}

\* the records of the roster that the aggregator puts in bucket label
RecordsIn(label) ==
    {j \in 1..Len(roster.rows) :
        /\ FYLabels(roster, EventCol)[j] = label
        /\ NotNa(roster.rows[j][EventCol])}

IsZero(v) == IF pc = "prepare_attrition_data" THEN v = Whole(0) ELSE v = 0

\* C1: for a roster that has the columns the aggregator needs and a list B of
\* distinct fiscal-year labels, each of the three fiscal-year aggregators
\* returns exactly len(B) rows, one per label of B in B's order, with the value
\* 0 for every label no record of the roster falls into.
C1_OneRowPerLabelZeroFilled ==
    (AggReturned /\ NeededCols \subseteq roster.cols) =>
        /\ chart.cols = {"FY", ValueCol}
        /\ Len(chart.rows) = Len(fy_list)
        /\ \A i \in 1..Len(fy_list) :
              /\ i \in DOMAIN chart.rows
              /\ chart.rows[i]["FY"] = fy_list[i]
              /\ (RecordsIn(fy_list[i]) = {} => IsZero(chart.rows[i][ValueCol]))

\* C1 witness: a call on a two-label list where one label has a record and the
\* other has none
C1_Witness ==
    /\ pc = "prepare_manpower_growth_data"
    /\ "date_of_joining" \in roster.cols
    /\ Len(fy_list) = 2
    /\ Len(chart.rows) = 2
    /\ chart.rows[1]["Headcount"] = 0
    /\ chart.rows[2]["Headcount"] > 0

\* the April-1 rule: the fiscal year of a date
AprilRuleFY(t) == IF t.m >= 4 THEN t.y + 1 ELSE t.y

\* the label of the fiscal year fy
FYLabelOf(fy) == FY_PREFIX \o <<Digit((fy % 100) \div 10), Digit(fy % 10)>>

\* the records whose event date lies in the fiscal year labelled label by the
\* April-1 rule
RecordsInAprilRuleFY(label) ==
    {j \in 1..Len(roster.rows) :
        /\ roster.rows[j][EventCol].k = "ts"
        /\ FYLabelOf(AprilRuleFY(roster.rows[j][EventCol])) = label}

\* C2: the join-date and exit-date aggregators count a record whose event date
\* is d in the bucket of the fiscal year of d by the April-1 rule (d.year + 1 if
\* d.month >= 4, else d.year), not of d's calendar year: a joining date of
\* 1 April 2025 is counted under FY-26.
C2_BucketIsAprilRuleFY ==
    /\ (pc = "prepare_manpower_growth_data" /\ "date_of_joining" \in roster.cols) =>
          \A i \in 1..Len(chart.rows) :
              chart.rows[i]["Headcount"] =
                  Cardinality(RecordsInAprilRuleFY(chart.rows[i]["FY"]))
    /\ (pc = "prepare_attrition_data" /\ "date_of_exit" \in roster.cols) =>
          \A i \in 1..Len(chart.rows) :
              (chart.rows[i]["Attrition %"] # Whole(0)) <=>
                  (RecordsInAprilRuleFY(chart.rows[i]["FY"]) # {})

FyYears == 1999..2030

TagChoices ==
    {None, <<>>, <<"Q", "1">>, <<"f", "y", "-", "2", "6">>,
     FY_PREFIX, FY_PREFIX \o <<"1">>, FY_PREFIX \o <<"2", "6">>,
     FY_PREFIX \o <<"2", "0", "2", "6">>, FY_PREFIX \o <<"a", "b">>,
     FY_PREFIX \o <<".", "0">>, <<"<", "1", " ", "Y", "e", "a", "r">>}

InitFY ==
    /\ roster = NoFrame
    /\ now = DefaultNow
    /\ fy_list = <<>>
    /\ chart = NoFrame
    /\ kpis = NoKpis
    /\ pc = "idle"
    /\ args = NoArgs
    /\ tag = None
    /\ formatted = None

GetLastFyList ==
    /\ pc = "idle"
    /\ \E current_fy \in FyYears, n \in 0..MaxN :
          /\ args' = [current_fy |-> current_fy, n |-> n]
          /\ fy_list' = get_last_fy_list(current_fy, n)
    /\ pc' = "get_last_fy_list"
    /\ UNCHANGED <<now, roster, chart, kpis, tag, formatted>>

FormatFinancialYear ==
    /\ pc \in {"idle", "get_last_fy_list"}
    /\ \E t \in TagChoices \cup Range(fy_list) :
          /\ tag' = t
          /\ formatted' = format_financial_year(t)
    /\ pc' = "format_financial_year"
    /\ UNCHANGED <<now, roster, chart, kpis, args, fy_list>>

NextFY == GetLastFyList \/ FormatFinancialYear

SpecFY == InitFY /\ [][NextFY]_vars

\* C8: get_last_fy_list(current_fy, n) returns exactly n labels, those of the
\* consecutive fiscal years current_fy-n+1 .. current_fy, oldest first, each
\* 'FY-' followed by the last two digits of its year;
\* get_last_fy_list(2026, 5) is [FY-22, FY-23, FY-24, FY-25, FY-26].
C8_TrailingFiscalYears ==
    pc = "get_last_fy_list" =>
        /\ Len(fy_list) = args.n
        /\ \A k \in 1..args.n :
              /\ k \in DOMAIN fy_list
              /\ fy_list[k] = FYLabelOf(args.current_fy - args.n + k)
        /\ (args = [current_fy |-> 2026, n |-> 5] =>
               fy_list = <<FY_PREFIX \o <<"2", "2">>, FY_PREFIX \o <<"2", "3">>,
                           FY_PREFIX \o <<"2", "4">>, FY_PREFIX \o <<"2", "5">>,
                           FY_PREFIX \o <<"2", "6">>>>)

\* C8 witness: the call get_last_fy_list(2026, 5) has returned five labels
C8_Witness ==
    /\ pc = "get_last_fy_list"
    /\ args = [current_fy |-> 2026, n |-> 5]
    /\ Len(fy_list) = 5
    /\ fy_list[5] = FY_PREFIX \o <<"2", "6">>

Digits == {"0", "1", "2", "3", "4", "5", "6", "7", "8", "9"}

\* t has the form 'FY-NN', NN two digits
IsFYNN(t) ==
    /\ t # None
    /\ Len(t) = 5
    /\ StartsWith(t, FY_PREFIX)
    /\ t[4] \in Digits
    /\ t[5] \in Digits

\* C9: format_financial_year(tag) returns 'Financial Year 20NN' when tag has the
\* form 'FY-NN' with NN two digits, and returns tag unchanged for every other
\* input.
C9_FormatOnlyFYNN ==
    pc = "format_financial_year" =>
        formatted = IF IsFYNN(tag) THEN FINANCIAL_YEAR_20 \o <<tag[4], tag[5]>>
                    ELSE tag

(***************************************************************************)
(* SpecAge: prepare_age_distribution on rosters whose ages sit on and      *)
(* around the band boundaries.                                             *)
(***************************************************************************)
\* dates of birth that are 19, 20, 23, 25 and 60 years old on DefaultNow, and a
\* missing one
AgeCells ==
    [c \in {"date_of_birth", "date_of_exit"} |->
        CASE c = "date_of_birth" ->
                 {Ts(2006, 1, 1), Ts(2005, 6, 15), Ts(2002, 6, 15),
                  Ts(2000, 6, 15), Ts(1965, 6, 15), NaT}
          [] c = "date_of_exit" -> {NaT, Ts(2025, 4, 1)}]

AgeColSets == {{"date_of_birth", "date_of_exit"}, {"date_of_birth"}}

AgeRosters ==
    UNION {{Frame("roster", cols, rows) :
               rows \in SeqsUpTo(RowsOver(cols, AgeCells), MaxAgeRows)} :
           cols \in AgeColSets}

InitAge ==
    /\ roster \in AgeRosters
    /\ now = DefaultNow
    /\ fy_list = <<>>
    /\ chart = NoFrame
    /\ kpis = NoKpis
    /\ pc = "idle"
    /\ args = NoArgs
    /\ tag = None
    /\ formatted = None

CallAgeDistribution ==
    /\ pc = "idle"
    /\ LET res == prepare_age_distribution(roster, now) IN
          /\ chart' = res.ret
          /\ roster' = res.df
    /\ pc' = "prepare_age_distribution"
    /\ UNCHANGED <<now, fy_list, kpis, args, tag, formatted>>

NextAge == CallAgeDistribution

SpecAge == InitAge /\ [][NextAge]_vars

\* the currently active records: those with no exit date
ActiveRecords ==
    {j \in 1..Len(roster.rows) :
        "date_of_exit" \in roster.cols => IsNa(roster.rows[j]["date_of_exit"])}

\* the age in whole years of record j
AgeOfRecord(j) == AgeOf(now, roster.rows[j]["date_of_birth"]).num

\* the lower bound and the (excluded) upper bound of band b; the last band,
\* '60+', has no upper bound
BandLower(b) == AGE_BINS[b].num
BandHasUpper(b) == b < Len(AGE_LABELS)
BandUpper(b) == AGE_BINS[b + 1].num

\* C5: prepare_age_distribution counts every currently active record in exactly
\* one age band, and the bands are half-open with the upper bound excluded: age
\* a is counted in the band whose lower bound is <= a and whose upper bound is
\* > a (age 20 in '20-24', age 25 in '25-29', age 60 in '60+').
C5_AgeBandsUpperExclusive ==
    (pc = "prepare_age_distribution" /\ "date_of_birth" \in roster.cols) =>
        \A b \in 1..Len(AGE_LABELS) :
            /\ b \in DOMAIN chart.rows
            /\ chart.rows[b]["Age Group"] = AGE_LABELS[b]
            /\ chart.rows[b]["Count"] =
                  Cardinality({j \in ActiveRecords :
                      /\ BandLower(b) <= AgeOfRecord(j)
                      /\ BandHasUpper(b) => AgeOfRecord(j) < BandUpper(b)})

(***************************************************************************)
(* Spec: run_report.  The KPI block, then the eight charts in order, each  *)
(* prepared from the roster and rendered.                                  *)
(***************************************************************************)
Nows == {Ts(2025, 3, 31), Ts(2025, 6, 15)}

ALL_COLUMNS == {"date_of_joining", "date_of_exit", "total_ctc_pa", "gender",
                "date_of_birth", "total_exp_yrs", "qualification_type"}

\* the employees of the rosters: every pairing of a joining date and an exit
\* date on and around the report's dates, and two employees of another profile
ReportRows(at) ==
    LET current_fy == CurrentFY(at)
        joins == {FyStart(current_fy), at, Ts(current_fy, 4, 1), NaT, BadStr}
        exits == {NaT, FyStart(current_fy), at, FyEnd(current_fy)}
        female(j, e) ==
            [date_of_joining |-> j, date_of_exit |-> e, total_ctc_pa |-> 10,
             gender |-> "Female", date_of_birth |-> Ts(2000, 6, 15),
             total_exp_yrs |-> Frac(1, 2), qualification_type |-> "UG"]
        male(j, e) ==
            [date_of_joining |-> j, date_of_exit |-> e, total_ctc_pa |-> 20,
             gender |-> "Male", date_of_birth |-> NaT,
             total_exp_yrs |-> Whole(3), qualification_type |-> "PG"]
    IN {female(j, e) : j \in joins, e \in exits}
       \cup {male(FyStart(current_fy), NaT), male(at, at)}

Restrict(row, cols) == [c \in cols |-> row[c]]

\* rosters with every column, of up to MaxRows employees; rosters that lack one
\* column; and pd.DataFrame(), the roster of a report without employee_master
ReportRosters(at) ==
    {Frame("roster", ALL_COLUMNS, rows) : rows \in SeqsUpTo(ReportRows(at), MaxRows)}
    \cup {Frame("roster", ALL_COLUMNS \ {c}, <<Restrict(row, ALL_COLUMNS \ {c})>>) :
             c \in ALL_COLUMNS, row \in ReportRows(at)}
    \cup {Frame("roster", {}, <<>>)}

Init ==
    /\ now \in Nows
    /\ roster \in ReportRosters(now)
    /\ fy_list = <<>>
    /\ chart = NoFrame
    /\ kpis = NoKpis
    /\ pc = "start"
    /\ args = NoArgs
    /\ tag = None
    /\ formatted = None

\* lines 248-295: the KPI block; an exception ends the report
RunReportKpis ==
    /\ pc = "start"
    /\ fy_list' = get_last_fy_list(CurrentFY(now), 5)
    /\ kpis' = run_report_kpis(roster, now)
    /\ pc' = IF kpis'.raised = "none" THEN "Manpower Growth" ELSE "raised"
    /\ UNCHANGED <<now, roster, chart, args, tag, formatted>>

\* The loop of lines 308-320, one action per chart: df_chart = prepare_func(df),
\* then render_func(df_chart, **params).
ChartManpowerGrowth ==
    /\ pc = "Manpower Growth"
    /\ LET res == prepare_manpower_growth_data(roster, fy_list) IN
          /\ roster' = res.df
          /\ chart' = render_xy_chart(res.ret, "FY", "Headcount")
    /\ pc' = "Manpower Cost Trend"
    /\ UNCHANGED <<now, fy_list, kpis, args, tag, formatted>>

ChartManpowerCost ==
    /\ pc = "Manpower Cost Trend"
    /\ LET res == prepare_manpower_cost_data(roster, fy_list) IN
          /\ roster' = res.df
          /\ chart' = render_xy_chart(res.ret, "FY", "Total Cost")
    /\ pc' = "Attrition Trend"
    /\ UNCHANGED <<now, fy_list, kpis, args, tag, formatted>>

ChartAttrition ==
    /\ pc = "Attrition Trend"
    /\ LET res == prepare_attrition_data(roster, fy_list) IN
          /\ roster' = res.df
          /\ chart' = render_xy_chart(res.ret, "FY", "Attrition %")
    /\ pc' = "Gender Diversity"
    /\ UNCHANGED <<now, fy_list, kpis, args, tag, formatted>>

ChartGender ==
    /\ pc = "Gender Diversity"
    /\ LET res == prepare_gender_data(roster) IN
          /\ roster' = res.df
          /\ chart' = render_pie_chart(res.ret, "Gender", "Count")
    /\ pc' = "Age Distribution"
    /\ UNCHANGED <<now, fy_list, kpis, args, tag, formatted>>

ChartAge ==
    /\ pc = "Age Distribution"
    /\ LET res == prepare_age_distribution(roster, now) IN
          /\ roster' = res.df
          /\ chart' = render_pie_chart(res.ret, "Age Group", "Count")
    /\ pc' = "Tenure Distribution"
    /\ UNCHANGED <<now, fy_list, kpis, args, tag, formatted>>

ChartTenure ==
    /\ pc = "Tenure Distribution"
    /\ LET res == prepare_tenure_distribution(roster) IN
          /\ roster' = res.df
          /\ chart' = render_pie_chart(res.ret, "Tenure Group", "Count")
    /\ pc' = "Total Experience Distribution"
    /\ UNCHANGED <<now, fy_list, kpis, args, tag, formatted>>

ChartExperience ==
    /\ pc = "Total Experience Distribution"
    /\ LET res == prepare_experience_distribution(roster) IN
          /\ roster' = res.df
          /\ chart' = render_xy_chart(res.ret, "Experience Group", "Count")
    /\ pc' = "Education Type Distribution"
    /\ UNCHANGED <<now, fy_list, kpis, args, tag, formatted>>

ChartEducation ==
    /\ pc = "Education Type Distribution"
    /\ LET res == prepare_education_distribution(roster) IN
          /\ roster' = res.df
          /\ chart' = render_pie_chart(res.ret, "Qualification", "Count")
    /\ pc' = "done"
    /\ UNCHANGED <<now, fy_list, kpis, args, tag, formatted>>

Next ==
    \/ RunReportKpis
    \/ ChartManpowerGrowth
    \/ ChartManpowerCost
    \/ ChartAttrition
    \/ ChartGender
    \/ ChartAge
    \/ ChartTenure
    \/ ChartExperience
    \/ ChartEducation

Spec == Init /\ [][Next]_vars

(***************************************************************************)
(* Claims about run_report (under Spec).                                   *)
(***************************************************************************)
\* a date cell that holds a date d with lo <= d
OnOrAfter(cell, lo) == cell.k = "ts" /\ DayNumber(cell) >= DayNumber(lo)
\* a date cell that holds a date d with d <= hi
OnOrBefore(cell, hi) == cell.k = "ts" /\ DayNumber(cell) <= DayNumber(hi)

\* the records that have joined by the date at and have not left by it
ActiveAt(at) ==
    {j \in 1..Len(roster.rows) :
        /\ OnOrBefore(roster.rows[j]["date_of_joining"], at)
        /\ \/ roster.rows[j]["date_of_exit"].k = "nat"
           \/ /\ roster.rows[j]["date_of_exit"].k = "ts"
              /\ ~OnOrBefore(roster.rows[j]["date_of_exit"], at)}

HasDateColumns == {"date_of_joining", "date_of_exit"} \subseteq roster.cols

\* C3: the Active Employees KPI is the number of records with date_of_joining
\* <= today and (date_of_exit null or > today); a record whose join date is
\* missing or unparseable counts as inactive and does not make the computation
\* raise.
C3_ActiveCountNeverRaises ==
    (pc # "start" /\ HasDateColumns
        /\ \A j \in 1..Len(roster.rows) : roster.rows[j]["date_of_exit"].k # "str") =>
        /\ kpis.raised = "none"
        /\ kpis.active = Cardinality(ActiveAt(now))

\* the leavers of the fiscal year: exit date in [fy_start, fy_end]
LeaversOfFY ==
    {j \in 1..Len(roster.rows) :
        /\ OnOrAfter(roster.rows[j]["date_of_exit"], FyStart(CurrentFY(now)))
        /\ OnOrBefore(roster.rows[j]["date_of_exit"], FyEnd(CurrentFY(now)))}

\* C4: the Attrition Rate KPI is leavers / average_headcount * 100, leavers the
\* records with date_of_exit in [fy_start, fy_end] inclusive, average_headcount
\* the mean of the headcounts at fy_start and fy_end, replaced by 1 when both
\* are zero, so that the divisor is never zero.
C4_AttritionRate ==
    (pc # "start" /\ kpis.raised = "none") =>
        LET hs == Cardinality(ActiveAt(FyStart(CurrentFY(now))))
            he == Cardinality(ActiveAt(FyEnd(CurrentFY(now))))
            leavers == Cardinality(LeaversOfFY)
        IN /\ kpis.avg_headcount.num > 0
           /\ kpis.avg_headcount.den > 0
           /\ (hs + he = 0 => kpis.avg_headcount = Whole(1))
           /\ (hs + he > 0 =>
                  /\ 2 * kpis.avg_headcount.num = (hs + he) * kpis.avg_headcount.den
                  /\ kpis.attrition.num * (hs + he)
                         = 200 * leavers * kpis.attrition.den)
           /\ (hs + he = 0 => kpis.attrition = Whole(100 * leavers))

\* C4 witness: a report with a leaver and no headcount at either end of the
\* fiscal year, where the sentinel is the divisor
C4_Witness ==
    /\ pc # "start"
    /\ kpis.raised = "none"
    /\ kpis.headcount_start = 0
    /\ kpis.headcount_end = 0
    /\ kpis.leavers = 1
    /\ kpis.attrition = Whole(100)

\* C6: no missing roster column is fatal to the report: for a roster that lacks
\* any of its columns, the empty roster included, run_report completes without
\* raising.
C6_MissingColumnNotFatal ==
    (pc # "start"
        /\ \A j \in 1..Len(roster.rows) : \A c \in roster.cols :
              c \in {"date_of_joining", "date_of_exit"} => roster.rows[j][c].k # "str") =>
        kpis.raised = "none"

\* C7: the source roster is never mutated: no call of a prepare_* aggregator or
\* of a render_* function on its result, as run_report performs them, changes
\* the rows, columns or values of the roster.
C7_RosterNeverMutated == [][roster' = roster]_vars

\* C7 witness: a report on a roster of two employees has prepared and rendered
\* all eight charts
C7_Witness ==
    /\ pc = "done"
    /\ Len(roster.rows) = 2
    /\ chart.cols = {"Qualification", "Count"}

====
